---- MODULE Spec2Model ----
(***************************************************************************)
(* Health-classification engine of relife.py: the cell evaluator, the      *)
(* pack-voltage evaluator, the pack specification calculator and the pack  *)
(* analysis that folds the statuses into the pack verdict.                 *)
(*                                                                         *)
(* Numbers.  The program computes on Python floats.  The model computes on *)
(* exact numbers:                                                          *)
(*   - a cell voltage is an integer number of millivolts (4.20 V = 4200);  *)
(*   - an internal resistance is an integer number of micro-ohms, that is  *)
(*     thousandths of a mOhm (16.00 mOhm = 16000);                         *)
(*   - a pack-level voltage of calculate_pack_specs is an integer number   *)
(*     of thirds of a millivolt, because 0.5 * (N / 12) V is 125 * N / 3   *)
(*     mV (N * 4.20 V = 3 * N * 4200);                                     *)
(*   - a mean is the fraction [num, den] of the sum and the count, and     *)
(*     every comparison with a mean is cross-multiplied by den > 0.        *)
(* The numbers of the model are the values the program compares.  A        *)
(* decimal spelling without an exact float (4.20, 4.10, 0.10) is rounded   *)
(* when the program reads it, so that 4.20 - 4.10 > 0.10 holds in the      *)
(* program; on the values themselves the subtraction and the comparisons   *)
(* are exact, as they are here.                                            *)
(* A reason string is modelled by its message template: the formatted      *)
(* number inside it is left out.                                           *)
(***************************************************************************)
EXTENDS Integers, Sequences, FiniteSets, TLC

None == "None"

\* None where a mean is expected: a fraction with no denominator
NoneMedia == [num |-> 0, den |-> 0]

\* ------------------------------------------------------------------------
\* Cell model registry (voltages in mV, IR in micro-ohm)
\* ------------------------------------------------------------------------
ALL_CELL_SPECS ==
    ( "Sony" :> [ FABRICANTE       |-> "Sony",
                  TENSAO_NOMINAL   |-> 3700,
                  TENSAO_CARGA_MAX |-> 4200,
                  TENSAO_CORTE     |-> 2500,
                  IR_NOVA_TIPICA   |-> 16000 ] )
    @@
    ( "Panasonic" :> [ FABRICANTE       |-> "Panasonic",
                       TENSAO_NOMINAL   |-> 3600,
                       TENSAO_CARGA_MAX |-> 4200,
                       TENSAO_CORTE     |-> 2750,
                       IR_NOVA_TIPICA   |-> 20000 ] )

CellTypes == DOMAIN ALL_CELL_SPECS

\* Thresholds of the cell evaluator
OCV_DIFF_LIMIAR_MONITOR == 50
OCV_DIFF_LIMIAR_RUIM == 100
OCV_ABSOLUTO_LIMIAR_CRITICO == 2500
OCV_ABSOLUTO_LIMIAR_RUIM == 3000
IR_LIMIAR_BOM_MAX == 20000
IR_LIMIAR_MONITOR_MAX == 30000
IR_LIMIAR_RUIM_MIN == 30000
IR_PCT_DIFF_LIMIAR_MONITOR == 25
IR_PCT_DIFF_LIMIAR_RUIM == 50

\* Severity order used by the pack analysis
status_pack_ordem ==
    ("Bom" :> 0) @@ ("Monitorar" :> 1) @@ ("Ruim" :> 2) @@ ("Critico" :> 3)

Statuses == DOMAIN status_pack_ordem

\* Message templates of the cell evaluator
M_OCV_MUITO_BAIXA == "OCV muito baixa. Risco de dano irreversivel e seguranca."
M_OCV_BAIXA == "OCV baixa. Requer recarga urgente."
M_OCV_ALTO_DESVIO == "OCV com alto desvio da media do pack. Indica forte desbalanceamento."
M_OCV_DESVIO_MODERADO == "OCV com desvio moderado da media do pack. Indica desbalanceamento inicial."
M_IR_MUITO_ALTA == "IR muito alta. Celula degradada, compromete potencia e aquecimento."
M_IR_MODERADA == "IR moderada. Degradando, requer monitoramento."
M_IR_POUCO_ACIMA == "IR um pouco acima do ideal. Pode ser sinal de envelhecimento."
M_IR_ALTO_DESVIO_PCT == "IR com alto desvio percentual da media do pack. Sinal de degradacao acentuada."
M_IR_DESVIO_PCT_MODERADO == "IR com desvio percentual moderado da media do pack. Inicio de degradacao."
M_PADRAO == "Dentro dos parametros esperados."
M_NA == "N/A"

\* Message templates of the pack-voltage evaluator
P_ACIMA_MAX == "acima do maximo permitido. Risco de sobrecarga e superaquecimento."
P_ABAIXO_CORTE == "abaixo da tensao de corte. Risco de dano irreversivel."
P_MUITO_BAIXA == "muito baixa. Proximo a descarga critica."
P_BAIXA == "baixa. Sugere que o pack precisa ser recarregado em breve."
P_ABAIXO_NOMINAL == "abaixo da nominal, mas aceitavel. Indicativo de SoC intermediario."
P_SAUDAVEL == "dentro dos limites esperados e saudaveis."

\* ------------------------------------------------------------------------
\* Exact arithmetic helpers
\* ------------------------------------------------------------------------
Abs(x) == IF x < 0 THEN -x ELSE x

Frac(n, d) == [num |-> n, den |-> d]

RECURSIVE SumSeq(_)
SumSeq(s) == IF s = <<>> THEN 0 ELSE Head(s) + SumSeq(Tail(s))

\* np.mean of a non-empty list
np_mean(s) == Frac(SumSeq(s), Len(s))

\* Variant of OcvDiffGt: the difference is signed (no abs)
OcvDiffGt_SemAbs(ocv, ocv_media, limiar) ==
    ocv * ocv_media.den - ocv_media.num > limiar * ocv_media.den

\* abs(ocv - ocv_media) > limiar, ocv_media a fraction, limiar in mV
OcvDiffGt(ocv, ocv_media, limiar) ==
    Abs(ocv * ocv_media.den - ocv_media.num) > limiar * ocv_media.den

\* Variant of IrPctDiffGt: the percentage is that of abs(ir - ir_media)
IrPctDiffGt_Abs(ir, ir_media, limiar) ==
    Abs(ir * ir_media.den - ir_media.num) * 100 > limiar * ir_media.num

\* ((ir - ir_media) / ir_media) * 100 > limiar, for ir_media > 0
IrPctDiffGt(ir, ir_media, limiar) ==
    (ir * ir_media.den - ir_media.num) * 100 > limiar * ir_media.num

\* ------------------------------------------------------------------------
\* calculate_pack_specs (pack voltages in thirds of a millivolt)
\* ------------------------------------------------------------------------
\* Default of the parameter num_cells_series
NUM_CELLS_SERIES_DEFAULT == 12

\* Variant of calculate_pack_specs: the offsets of the monitor and bad
\* thresholds are exchanged
calculate_pack_specs_Troca(cell_specs_individual, num_cells_series) ==
    LET max == 3 * num_cells_series * cell_specs_individual.TENSAO_CARGA_MAX
        nominal == 3 * num_cells_series * cell_specs_individual.TENSAO_NOMINAL
        corte == 3 * num_cells_series * cell_specs_individual.TENSAO_CORTE
    IN  [ NUM_CELULAS_SERIE |-> num_cells_series,
          PACK_TENSAO_MAX |-> max,
          PACK_TENSAO_NOMINAL |-> nominal,
          PACK_TENSAO_CORTE |-> corte,
          PACK_TENSAO_LIMIAR_BOM_MIN |-> nominal - 125 * num_cells_series,
          PACK_TENSAO_LIMIAR_MONITOR_MIN |-> corte + 300 * num_cells_series,
          PACK_TENSAO_LIMIAR_RUIM_MIN |-> corte + 1500 * num_cells_series,
          PACK_TENSAO_LIMIAR_CRITICO_MIN |-> corte ]

\* Variant of calculate_pack_specs: the pack voltages are those of 12 cells
\* whatever num_cells_series is
calculate_pack_specs_Doze(cell_specs_individual, num_cells_series) ==
    LET max == 3 * 12 * cell_specs_individual.TENSAO_CARGA_MAX
        nominal == 3 * 12 * cell_specs_individual.TENSAO_NOMINAL
        corte == 3 * 12 * cell_specs_individual.TENSAO_CORTE
    IN  [ NUM_CELULAS_SERIE |-> num_cells_series,
          PACK_TENSAO_MAX |-> max,
          PACK_TENSAO_NOMINAL |-> nominal,
          PACK_TENSAO_CORTE |-> corte,
          PACK_TENSAO_LIMIAR_BOM_MIN |-> nominal - 125 * num_cells_series,
          PACK_TENSAO_LIMIAR_MONITOR_MIN |-> corte + 1500 * num_cells_series,
          PACK_TENSAO_LIMIAR_RUIM_MIN |-> corte + 300 * num_cells_series,
          PACK_TENSAO_LIMIAR_CRITICO_MIN |-> corte ]

calculate_pack_specs(cell_specs_individual, num_cells_series) ==
    LET max == 3 * num_cells_series * cell_specs_individual.TENSAO_CARGA_MAX
        nominal == 3 * num_cells_series * cell_specs_individual.TENSAO_NOMINAL
        corte == 3 * num_cells_series * cell_specs_individual.TENSAO_CORTE
    IN  [ NUM_CELULAS_SERIE |-> num_cells_series,
          PACK_TENSAO_MAX |-> max,
          PACK_TENSAO_NOMINAL |-> nominal,
          PACK_TENSAO_CORTE |-> corte,
          PACK_TENSAO_LIMIAR_BOM_MIN |-> nominal - 125 * num_cells_series,
          PACK_TENSAO_LIMIAR_MONITOR_MIN |-> corte + 1500 * num_cells_series,
          PACK_TENSAO_LIMIAR_RUIM_MIN |-> corte + 300 * num_cells_series,
          PACK_TENSAO_LIMIAR_CRITICO_MIN |-> corte ]

\* ------------------------------------------------------------------------
\* avaliar_celula_individual, one operator per block of the function.
\* r is the running [status, motivos, exc]; exc is the exception raised.
\* ------------------------------------------------------------------------
CellStart == [status |-> "Bom", motivos |-> <<>>, exc |-> None]

Escala(r, st, motivo) ==
    [r EXCEPT !.status = st, !.motivos = Append(@, motivo)]

\* Variant of AvaliaOCV: the cutoff comparison is inclusive
AvaliaOCV_CorteInclusivo(r, ocv, current_cell_specs) ==
    IF ocv <= current_cell_specs.TENSAO_CORTE
    THEN Escala(r, "Critico", M_OCV_MUITO_BAIXA)
    ELSE IF ocv < OCV_ABSOLUTO_LIMIAR_RUIM
         THEN IF r.status # "Critico"
              THEN Escala(r, "Ruim", M_OCV_BAIXA)
              ELSE r
         ELSE r

\* Variant of AvaliaOCV: the comparison with the 3.00 V threshold is
\* inclusive
AvaliaOCV_RuimInclusivo(r, ocv, current_cell_specs) ==
    IF ocv < current_cell_specs.TENSAO_CORTE
    THEN Escala(r, "Critico", M_OCV_MUITO_BAIXA)
    ELSE IF ocv <= OCV_ABSOLUTO_LIMIAR_RUIM
         THEN IF r.status # "Critico"
              THEN Escala(r, "Ruim", M_OCV_BAIXA)
              ELSE r
         ELSE r

\* Avaliacao de Tensao (OCV)
AvaliaOCV(r, ocv, current_cell_specs) ==
    IF ocv < current_cell_specs.TENSAO_CORTE
    THEN Escala(r, "Critico", M_OCV_MUITO_BAIXA)
    ELSE IF ocv < OCV_ABSOLUTO_LIMIAR_RUIM
         THEN IF r.status # "Critico"
              THEN Escala(r, "Ruim", M_OCV_BAIXA)
              ELSE r
         ELSE r

\* Variant of AvaliaDesvioOCV: both deviation comparisons are inclusive
AvaliaDesvioOCV_Inclusivo(r, ocv, ocv_media, is_avulsa) ==
    IF ~is_avulsa /\ ocv_media # NoneMedia
    THEN IF ~OcvDiffGt(ocv, ocv_media, OCV_DIFF_LIMIAR_RUIM - 1)
         THEN IF ~OcvDiffGt(ocv, ocv_media, OCV_DIFF_LIMIAR_MONITOR - 1)
              THEN r
              ELSE IF r.status = "Bom"
                   THEN Escala(r, "Monitorar", M_OCV_DESVIO_MODERADO)
                   ELSE r
         ELSE IF r.status \notin {"Critico", "Ruim"}
              THEN Escala(r, "Ruim", M_OCV_ALTO_DESVIO)
              ELSE r
    ELSE r

\* Variant of AvaliaDesvioOCV: the guard does not look at is_avulsa
AvaliaDesvioOCV_SemAvulsa(r, ocv, ocv_media, is_avulsa) ==
    IF ocv_media # NoneMedia
    THEN IF OcvDiffGt(ocv, ocv_media, OCV_DIFF_LIMIAR_RUIM)
         THEN IF r.status \notin {"Critico", "Ruim"}
              THEN Escala(r, "Ruim", M_OCV_ALTO_DESVIO)
              ELSE r
         ELSE IF OcvDiffGt(ocv, ocv_media, OCV_DIFF_LIMIAR_MONITOR)
              THEN IF r.status = "Bom"
                   THEN Escala(r, "Monitorar", M_OCV_DESVIO_MODERADO)
                   ELSE r
              ELSE r
    ELSE r

\* Variant of AvaliaDesvioOCV: the moderate-deviation branch is missing
AvaliaDesvioOCV_SemMonitor(r, ocv, ocv_media, is_avulsa) ==
    IF ~is_avulsa /\ ocv_media # NoneMedia
    THEN IF OcvDiffGt(ocv, ocv_media, OCV_DIFF_LIMIAR_RUIM)
         THEN IF r.status \notin {"Critico", "Ruim"}
              THEN Escala(r, "Ruim", M_OCV_ALTO_DESVIO)
              ELSE r
         ELSE r
    ELSE r

\* Desvio da OCV em relacao a media do pack
AvaliaDesvioOCV(r, ocv, ocv_media, is_avulsa) ==
    IF ~is_avulsa /\ ocv_media # NoneMedia
    THEN IF OcvDiffGt(ocv, ocv_media, OCV_DIFF_LIMIAR_RUIM)
         THEN IF r.status \notin {"Critico", "Ruim"}
              THEN Escala(r, "Ruim", M_OCV_ALTO_DESVIO)
              ELSE r
         ELSE IF OcvDiffGt(ocv, ocv_media, OCV_DIFF_LIMIAR_MONITOR)
              THEN IF r.status = "Bom"
                   THEN Escala(r, "Monitorar", M_OCV_DESVIO_MODERADO)
                   ELSE r
              ELSE r
    ELSE r

\* Variant of AvaliaIR: the 20..30 mOhm branch assigns Monitorar without
\* looking at the running severity
AvaliaIR_Rebaixa(r, ir) ==
    IF ir >= IR_LIMIAR_RUIM_MIN
    THEN IF r.status \notin {"Critico", "Ruim"}
         THEN Escala(r, "Ruim", M_IR_MUITO_ALTA)
         ELSE r
    ELSE IF ir >= IR_LIMIAR_MONITOR_MAX
         THEN IF r.status = "Bom"
              THEN Escala(r, "Monitorar", M_IR_MODERADA)
              ELSE r
         ELSE IF ir > IR_LIMIAR_BOM_MAX
              THEN Escala(r, "Monitorar", M_IR_POUCO_ACIMA)
              ELSE r

\* Variant of AvaliaIR: the first comparison is strict
AvaliaIR_Estrito(r, ir) ==
    IF ir > IR_LIMIAR_RUIM_MIN
    THEN IF r.status \notin {"Critico", "Ruim"}
         THEN Escala(r, "Ruim", M_IR_MUITO_ALTA)
         ELSE r
    ELSE IF ir >= IR_LIMIAR_MONITOR_MAX
         THEN IF r.status = "Bom"
              THEN Escala(r, "Monitorar", M_IR_MODERADA)
              ELSE r
         ELSE IF ir > IR_LIMIAR_BOM_MAX
              THEN IF r.status = "Bom"
                   THEN Escala(r, "Monitorar", M_IR_POUCO_ACIMA)
                   ELSE r
              ELSE r

\* Variant of AvaliaIR: the first branch (ir >= IR_LIMIAR_RUIM_MIN) is
\* missing
AvaliaIR_SemRuim(r, ir) ==
    IF ir >= IR_LIMIAR_MONITOR_MAX
    THEN IF r.status = "Bom"
         THEN Escala(r, "Monitorar", M_IR_MODERADA)
         ELSE r
    ELSE IF ir > IR_LIMIAR_BOM_MAX
         THEN IF r.status = "Bom"
              THEN Escala(r, "Monitorar", M_IR_POUCO_ACIMA)
              ELSE r
         ELSE r

\* Variant of AvaliaIR: the reason of the first branch is appended whether
\* or not the severity is raised
AvaliaIR_SempreMotivo(r, ir) ==
    IF ir >= IR_LIMIAR_RUIM_MIN
    THEN IF r.status \notin {"Critico", "Ruim"}
         THEN Escala(r, "Ruim", M_IR_MUITO_ALTA)
         ELSE [r EXCEPT !.motivos = Append(@, M_IR_MUITO_ALTA)]
    ELSE IF ir >= IR_LIMIAR_MONITOR_MAX
         THEN IF r.status = "Bom"
              THEN Escala(r, "Monitorar", M_IR_MODERADA)
              ELSE r
         ELSE IF ir > IR_LIMIAR_BOM_MAX
              THEN IF r.status = "Bom"
                   THEN Escala(r, "Monitorar", M_IR_POUCO_ACIMA)
                   ELSE r
              ELSE r

\* Avaliacao de Resistencia Interna (IR)
AvaliaIR(r, ir) ==
    IF ir >= IR_LIMIAR_RUIM_MIN
    THEN IF r.status \notin {"Critico", "Ruim"}
         THEN Escala(r, "Ruim", M_IR_MUITO_ALTA)
         ELSE r
    ELSE IF ir >= IR_LIMIAR_MONITOR_MAX
         THEN IF r.status = "Bom"
              THEN Escala(r, "Monitorar", M_IR_MODERADA)
              ELSE r
         ELSE IF ir > IR_LIMIAR_BOM_MAX
              THEN IF r.status = "Bom"
                   THEN Escala(r, "Monitorar", M_IR_POUCO_ACIMA)
                   ELSE r
              ELSE r

\* Variant of GuardaDesvioIR: the mean is not required to be positive
GuardaDesvioIR_SemPositivo(ir_media, is_avulsa) ==
    ~is_avulsa /\ ir_media # NoneMedia

\* The guard of the IR percentage deviation block
GuardaDesvioIR(ir_media, is_avulsa) ==
    ~is_avulsa /\ ir_media # NoneMedia /\ ir_media.num > 0

\* Desvio percentual da IR em relacao a media do pack; the division raises
\* ZeroDivisionError on a zero mean.
AvaliaDesvioIR(r, ir, ir_media, is_avulsa) ==
    IF GuardaDesvioIR(ir_media, is_avulsa)
    THEN IF ir_media.num = 0
         THEN [r EXCEPT !.exc = "ZeroDivisionError"]
         ELSE IF IrPctDiffGt(ir, ir_media, IR_PCT_DIFF_LIMIAR_RUIM)
              THEN IF r.status \notin {"Critico", "Ruim"}
                   THEN Escala(r, "Ruim", M_IR_ALTO_DESVIO_PCT)
                   ELSE r
              ELSE IF IrPctDiffGt(ir, ir_media, IR_PCT_DIFF_LIMIAR_MONITOR)
                   THEN IF r.status = "Bom"
                        THEN Escala(r, "Monitorar", M_IR_DESVIO_PCT_MODERADO)
                        ELSE r
                   ELSE r
    ELSE r

\* Variant of MotivoPadrao: the default reason is appended to every result
MotivoPadrao_Sempre(r) ==
    [r EXCEPT !.motivos = Append(@, M_PADRAO)]

\* The default reason
MotivoPadrao(r) ==
    IF r.motivos = <<>> /\ r.status = "Bom"
    THEN [r EXCEPT !.motivos = Append(@, M_PADRAO)]
    ELSE r

\* return status, "; ".join(motivos) if motivos else "N/A"
Retorno(r) ==
    [exc |-> None,
     status |-> r.status,
     motivos |-> IF r.motivos # <<>> THEN r.motivos ELSE <<M_NA>>]

\* No value: before the return, or after an exception exc
SemRetorno(exc) == [exc |-> exc, status |-> None, motivos |-> <<>>]

\* The whole function; an exception leaves no return value.
avaliar_celula_individual(ocv, ir, current_cell_specs, ocv_media, ir_media, is_avulsa) ==
    LET r1 == AvaliaOCV(CellStart, ocv, current_cell_specs)
        r2 == AvaliaDesvioOCV(r1, ocv, ocv_media, is_avulsa)
        r3 == AvaliaIR(r2, ir)
        r4 == AvaliaDesvioIR(r3, ir, ir_media, is_avulsa)
    IN  IF r4.exc # None THEN SemRetorno(r4.exc) ELSE Retorno(MotivoPadrao(r4))

\* ------------------------------------------------------------------------
\* avaliar_pack_voltage: total in mV, thresholds in thirds of a mV
\* ------------------------------------------------------------------------
\* Variant of avaliar_pack_voltage: the good-min rung is tested before the
\* bad-min and monitor-min rungs
avaliar_pack_voltage_Ordem(total_pack_voltage_medido, current_pack_specs) ==
    LET t == 3 * total_pack_voltage_medido
    IN  IF t > current_pack_specs.PACK_TENSAO_MAX + 300
        THEN [status |-> "Critico", motivos |-> <<P_ACIMA_MAX>>]
        ELSE IF t < current_pack_specs.PACK_TENSAO_LIMIAR_CRITICO_MIN
        THEN [status |-> "Critico", motivos |-> <<P_ABAIXO_CORTE>>]
        ELSE IF t < current_pack_specs.PACK_TENSAO_LIMIAR_BOM_MIN
        THEN [status |-> "Monitorar", motivos |-> <<P_ABAIXO_NOMINAL>>]
        ELSE IF t < current_pack_specs.PACK_TENSAO_LIMIAR_RUIM_MIN
        THEN [status |-> "Ruim", motivos |-> <<P_MUITO_BAIXA>>]
        ELSE IF t < current_pack_specs.PACK_TENSAO_LIMIAR_MONITOR_MIN
        THEN [status |-> "Monitorar", motivos |-> <<P_BAIXA>>]
        ELSE [status |-> "Bom", motivos |-> <<P_SAUDAVEL>>]

\* Variant of avaliar_pack_voltage: the overcharge margin is 1.0 V
avaliar_pack_voltage_Margem(total_pack_voltage_medido, current_pack_specs) ==
    LET t == 3 * total_pack_voltage_medido
    IN  IF t > current_pack_specs.PACK_TENSAO_MAX + 3000
        THEN [status |-> "Critico", motivos |-> <<P_ACIMA_MAX>>]
        ELSE IF t < current_pack_specs.PACK_TENSAO_LIMIAR_CRITICO_MIN
        THEN [status |-> "Critico", motivos |-> <<P_ABAIXO_CORTE>>]
        ELSE IF t < current_pack_specs.PACK_TENSAO_LIMIAR_RUIM_MIN
        THEN [status |-> "Ruim", motivos |-> <<P_MUITO_BAIXA>>]
        ELSE IF t < current_pack_specs.PACK_TENSAO_LIMIAR_MONITOR_MIN
        THEN [status |-> "Monitorar", motivos |-> <<P_BAIXA>>]
        ELSE IF t < current_pack_specs.PACK_TENSAO_LIMIAR_BOM_MIN
        THEN [status |-> "Monitorar", motivos |-> <<P_ABAIXO_NOMINAL>>]
        ELSE [status |-> "Bom", motivos |-> <<P_SAUDAVEL>>]

\* Variant of avaliar_pack_voltage: the comparison with the good-min
\* threshold is inclusive
avaliar_pack_voltage_BomInclusivo(total_pack_voltage_medido, current_pack_specs) ==
    LET t == 3 * total_pack_voltage_medido
    IN  IF t > current_pack_specs.PACK_TENSAO_MAX + 300
        THEN [status |-> "Critico", motivos |-> <<P_ACIMA_MAX>>]
        ELSE IF t < current_pack_specs.PACK_TENSAO_LIMIAR_CRITICO_MIN
        THEN [status |-> "Critico", motivos |-> <<P_ABAIXO_CORTE>>]
        ELSE IF t < current_pack_specs.PACK_TENSAO_LIMIAR_RUIM_MIN
        THEN [status |-> "Ruim", motivos |-> <<P_MUITO_BAIXA>>]
        ELSE IF t < current_pack_specs.PACK_TENSAO_LIMIAR_MONITOR_MIN
        THEN [status |-> "Monitorar", motivos |-> <<P_BAIXA>>]
        ELSE IF t <= current_pack_specs.PACK_TENSAO_LIMIAR_BOM_MIN
        THEN [status |-> "Monitorar", motivos |-> <<P_ABAIXO_NOMINAL>>]
        ELSE [status |-> "Bom", motivos |-> <<P_SAUDAVEL>>]

avaliar_pack_voltage(total_pack_voltage_medido, current_pack_specs) ==
    LET t == 3 * total_pack_voltage_medido
    IN  IF t > current_pack_specs.PACK_TENSAO_MAX + 300
        THEN [status |-> "Critico", motivos |-> <<P_ACIMA_MAX>>]
        ELSE IF t < current_pack_specs.PACK_TENSAO_LIMIAR_CRITICO_MIN
        THEN [status |-> "Critico", motivos |-> <<P_ABAIXO_CORTE>>]
        ELSE IF t < current_pack_specs.PACK_TENSAO_LIMIAR_RUIM_MIN
        THEN [status |-> "Ruim", motivos |-> <<P_MUITO_BAIXA>>]
        ELSE IF t < current_pack_specs.PACK_TENSAO_LIMIAR_MONITOR_MIN
        THEN [status |-> "Monitorar", motivos |-> <<P_BAIXA>>]
        ELSE IF t < current_pack_specs.PACK_TENSAO_LIMIAR_BOM_MIN
        THEN [status |-> "Monitorar", motivos |-> <<P_ABAIXO_NOMINAL>>]
        ELSE [status |-> "Bom", motivos |-> <<P_SAUDAVEL>>]

\* ------------------------------------------------------------------------
\* State
\* ------------------------------------------------------------------------
VARIABLES
    \* one call of avaliar_celula_individual
    cell_pc,          \* position in the function body
    ocv, ir,          \* the measurement
    cell_tipo,        \* key of current_cell_specs in ALL_CELL_SPECS
    ocv_media, ir_media, is_avulsa,
    status, motivos,  \* the running severity and reasons
    cell_exc,         \* exception raised by the call, or None
    cell_ret,         \* the returned (status, motivos), or None
    \* the pack tab: session state and widgets
    pk_pc,                      \* position of the script run
    selected_cell_type_pack,
    pack_cell_data,             \* one [ocv, ir] per cell
    total_pack_voltage_input,
    run_pack_analysis,
    \* the pack tab: locals of the analysis block
    ocv_media_pack, ir_media_pack, ocv_soma_calculada_pack,
    status_pack_v, motivos_pack_v,
    discrepancy_warning_text,
    status_pack_geral_base,
    resultados_celulas_pack,
    pk_i,                       \* index of the cell the loop is at
    \* one call of calculate_pack_specs
    ps_pc,            \* "idle", "done" (pack_specs returned) or "avaliado"
    ps_cell,          \* cell_specs_individual
    ps_n,             \* num_cells_series as the function sees it
    ps_omitido,       \* the caller left num_cells_series out
    ps_exc,           \* exception raised by the call, or None
    ps_ret,           \* the returned pack_specs
    \* one call of avaliar_pack_voltage on the returned pack_specs
    ps_total,         \* total_pack_voltage_medido, in mV
    ps_status_v,      \* the returned status
    ps_motivos_v,     \* the returned reasons
    \* the loose-cell tab: session state
    selected_cell_type_avulsa,
    avulsa_cell_data,             \* list of records
    run_avulsa_analysis,
    uploaded_avulsa_json_string,  \* file contents, or JsonNone
    process_avulsa_json_flag,
    \* the loose-cell tab: the current script run
    av_pc,                        \* "idle", "json" or "analise"
    av_evento,                    \* the widget that started the run
    new_cell_id,                  \* the ID field when "Adicionar" was clicked
    av_msg,                       \* message shown by the JSON block, or None
    df_resultados_avulsas         \* the sorted results of the run

cell_vars == <<cell_pc, ocv, ir, cell_tipo, ocv_media, ir_media, is_avulsa,
               status, motivos, cell_exc, cell_ret>>

pack_session == <<selected_cell_type_pack, pack_cell_data,
                  total_pack_voltage_input, run_pack_analysis>>

pack_locals == <<ocv_media_pack, ir_media_pack, ocv_soma_calculada_pack,
                 status_pack_v, motivos_pack_v, discrepancy_warning_text,
                 status_pack_geral_base, resultados_celulas_pack, pk_i>>

pack_vars == <<pk_pc, pack_session, pack_locals>>

ps_vars == <<ps_pc, ps_cell, ps_n, ps_omitido, ps_exc, ps_ret,
             ps_total, ps_status_v, ps_motivos_v>>

av_session == <<selected_cell_type_avulsa, avulsa_cell_data, run_avulsa_analysis,
                uploaded_avulsa_json_string, process_avulsa_json_flag>>

av_vars == <<av_session, av_pc, av_evento, new_cell_id, av_msg,
             df_resultados_avulsas>>

vars == <<cell_vars, pack_vars, ps_vars, av_vars>>

\* ------------------------------------------------------------------------
\* Inputs of the cell evaluator
\* ------------------------------------------------------------------------
CellOcvs == {-100, 2400, 2499, 2500, 2749, 2750, 2999, 3000, 3899, 3900, 3949,
             3950, 4000, 4050, 4051, 4100, 4101, 4200}

CellIrs == {-1000, 0, 15000, 16000, 18000, 20000, 20001, 25000, 29999, 30000, 35000}

\* The OCV column of a 12-cell pack with eleven cells at 4.20 V and one at
\* 3.00 V
CenarioA_OCV == [k \in 1..12 |-> IF k = 12 THEN 3000 ELSE 4200]

OcvMedias == {NoneMedia, Frac(2950, 1), Frac(4000, 1), Frac(12301, 3),
              np_mean(CenarioA_OCV)}

IrMedias == {NoneMedia, Frac(-5000, 1), Frac(0, 1), Frac(12000, 1), Frac(16000, 1),
             Frac(20000, 1), Frac(40000, 3)}

\* ------------------------------------------------------------------------
\* One call of avaliar_celula_individual, block by block
\* ------------------------------------------------------------------------
InitCell ==
    /\ cell_pc = "idle"
    /\ ocv = 0 /\ ir = 0
    /\ cell_tipo = "Sony"
    /\ ocv_media = NoneMedia /\ ir_media = NoneMedia
    /\ is_avulsa = FALSE
    /\ status = "Bom" /\ motivos = <<>>
    /\ cell_exc = None
    /\ cell_ret = SemRetorno(None)

Running == [status |-> status, motivos |-> motivos, exc |-> cell_exc]

CallCell ==
    /\ cell_pc = "idle"
    /\ \E o \in CellOcvs, i \in CellIrs, t \in CellTypes,
          om \in OcvMedias, im \in IrMedias, av \in BOOLEAN :
            /\ ocv' = o /\ ir' = i /\ cell_tipo' = t
            /\ ocv_media' = om /\ ir_media' = im /\ is_avulsa' = av
    /\ status' = CellStart.status
    /\ motivos' = CellStart.motivos
    /\ cell_exc' = CellStart.exc
    /\ cell_ret' = SemRetorno(None)
    /\ cell_pc' = "ocv"
    /\ UNCHANGED <<pack_vars, ps_vars, av_vars>>

SetRunning(r) ==
    /\ status' = r.status
    /\ motivos' = r.motivos
    /\ cell_exc' = r.exc

StepOCV ==
    /\ cell_pc = "ocv"
    /\ SetRunning(AvaliaOCV(Running, ocv, ALL_CELL_SPECS[cell_tipo]))
    /\ cell_pc' = "desvio_ocv"
    /\ UNCHANGED <<ocv, ir, cell_tipo, ocv_media, ir_media, is_avulsa, cell_ret>>
    /\ UNCHANGED <<pack_vars, ps_vars, av_vars>>

StepDesvioOCV ==
    /\ cell_pc = "desvio_ocv"
    /\ SetRunning(AvaliaDesvioOCV(Running, ocv, ocv_media, is_avulsa))
    /\ cell_pc' = "ir"
    /\ UNCHANGED <<ocv, ir, cell_tipo, ocv_media, ir_media, is_avulsa, cell_ret>>
    /\ UNCHANGED <<pack_vars, ps_vars, av_vars>>

StepIR ==
    /\ cell_pc = "ir"
    /\ SetRunning(AvaliaIR(Running, ir))
    /\ cell_pc' = "desvio_ir"
    /\ UNCHANGED <<ocv, ir, cell_tipo, ocv_media, ir_media, is_avulsa, cell_ret>>
    /\ UNCHANGED <<pack_vars, ps_vars, av_vars>>

StepDesvioIR ==
    /\ cell_pc = "desvio_ir"
    /\ SetRunning(AvaliaDesvioIR(Running, ir, ir_media, is_avulsa))
    /\ cell_pc' = "retorno"
    /\ UNCHANGED <<ocv, ir, cell_tipo, ocv_media, ir_media, is_avulsa, cell_ret>>
    /\ UNCHANGED <<pack_vars, ps_vars, av_vars>>

\* The default reason and the return statement; a raised exception
\* leaves the function without a return value.
StepRetorno ==
    /\ cell_pc = "retorno"
    /\ IF cell_exc # None
       THEN /\ cell_ret' = SemRetorno(cell_exc)
            /\ UNCHANGED <<status, motivos, cell_exc>>
       ELSE /\ SetRunning(MotivoPadrao(Running))
            /\ cell_ret' = Retorno(MotivoPadrao(Running))
    /\ cell_pc' = "done"
    /\ UNCHANGED <<ocv, ir, cell_tipo, ocv_media, ir_media, is_avulsa>>
    /\ UNCHANGED <<pack_vars, ps_vars, av_vars>>

\* The caller takes the result; the evaluator keeps no state between calls.
FimCell ==
    /\ cell_pc = "done"
    /\ cell_pc' = "idle"
    /\ ocv' = 0 /\ ir' = 0
    /\ cell_tipo' = "Sony"
    /\ ocv_media' = NoneMedia /\ ir_media' = NoneMedia
    /\ is_avulsa' = FALSE
    /\ status' = "Bom" /\ motivos' = <<>>
    /\ cell_exc' = None
    /\ cell_ret' = SemRetorno(None)
    /\ UNCHANGED <<pack_vars, ps_vars, av_vars>>

NextCell ==
    \/ CallCell
    \/ StepOCV
    \/ StepDesvioOCV
    \/ StepIR
    \/ StepDesvioIR
    \/ StepRetorno
    \/ FimCell

\* ------------------------------------------------------------------------
\* The pack tab
\* ------------------------------------------------------------------------
\* Series count of the modelled pack (the program's packs have 12 cells)
MaxSeries == 3

\* Values the user types into the cell table and the total-voltage field
PackOcvs == {2400, 2600, 4100, 4200}

PackIrs == {8000}

PackTotals ==
    {MaxSeries * v : v \in {2400, 2500, 2550, 2800, 3400, 3600, 4200}}
    \cup {MaxSeries * 4200 + d : d \in {100, 101, 200}}

current_cell_specs_pack == ALL_CELL_SPECS[selected_cell_type_pack]

current_pack_specs_pack == calculate_pack_specs(current_cell_specs_pack, MaxSeries)

\* The default table: every cell at max charge voltage and typical IR
DefaultPackData(tipo) ==
    [k \in 1..MaxSeries |->
        [ocv |-> ALL_CELL_SPECS[tipo].TENSAO_CARGA_MAX,
         ir |-> ALL_CELL_SPECS[tipo].IR_NOVA_TIPICA]]

NoLocals ==
    /\ ocv_media_pack' = NoneMedia
    /\ ir_media_pack' = NoneMedia
    /\ ocv_soma_calculada_pack' = 0
    /\ status_pack_v' = None
    /\ motivos_pack_v' = <<>>
    /\ discrepancy_warning_text' = None
    /\ status_pack_geral_base' = None
    /\ resultados_celulas_pack' = <<>>
    /\ pk_i' = 0

InitPack ==
    /\ pk_pc = "idle"
    /\ selected_cell_type_pack = "Sony"
    /\ pack_cell_data = DefaultPackData("Sony")
    /\ total_pack_voltage_input = MaxSeries * ALL_CELL_SPECS["Sony"].TENSAO_CARGA_MAX
    /\ run_pack_analysis = FALSE
    /\ ocv_media_pack = NoneMedia
    /\ ir_media_pack = NoneMedia
    /\ ocv_soma_calculada_pack = 0
    /\ status_pack_v = None
    /\ motivos_pack_v = <<>>
    /\ discrepancy_warning_text = None
    /\ status_pack_geral_base = None
    /\ resultados_celulas_pack = <<>>
    /\ pk_i = 0

\* The script is waiting for a widget event
Waiting == pk_pc \in {"idle", "done"}

\* Every widget event reruns the script: the locals of the previous run are
\* gone, and the analysis block runs when run_pack_analysis is set.
Rerun ==
    /\ NoLocals
    /\ pk_pc' = IF run_pack_analysis' THEN "analise" ELSE "idle"

\* The cell-type selectbox; a new type resets the table to its defaults
SelectCellType ==
    /\ Waiting
    /\ \E t \in CellTypes :
        /\ t # selected_cell_type_pack
        /\ selected_cell_type_pack' = t
        /\ pack_cell_data' = DefaultPackData(t)
    /\ UNCHANGED <<total_pack_voltage_input, run_pack_analysis>>
    /\ Rerun
    /\ UNCHANGED <<cell_vars, ps_vars, av_vars>>

\* The data editor: one OCV cell of the table is edited
EditOcv ==
    /\ Waiting
    /\ \E k \in 1..Len(pack_cell_data), v \in PackOcvs :
        /\ v # pack_cell_data[k].ocv
        /\ pack_cell_data' = [pack_cell_data EXCEPT ![k].ocv = v]
    /\ UNCHANGED <<selected_cell_type_pack, total_pack_voltage_input, run_pack_analysis>>
    /\ Rerun
    /\ UNCHANGED <<cell_vars, ps_vars, av_vars>>

\* The data editor: one IR cell of the table is edited
EditIr ==
    /\ Waiting
    /\ \E k \in 1..Len(pack_cell_data), v \in PackIrs :
        /\ v # pack_cell_data[k].ir
        /\ pack_cell_data' = [pack_cell_data EXCEPT ![k].ir = v]
    /\ UNCHANGED <<selected_cell_type_pack, total_pack_voltage_input, run_pack_analysis>>
    /\ Rerun
    /\ UNCHANGED <<cell_vars, ps_vars, av_vars>>

\* The measured total voltage field
EditTotal ==
    /\ Waiting
    /\ \E t \in PackTotals :
        /\ t # total_pack_voltage_input
        /\ total_pack_voltage_input' = t
    /\ UNCHANGED <<selected_cell_type_pack, pack_cell_data, run_pack_analysis>>
    /\ Rerun
    /\ UNCHANGED <<cell_vars, ps_vars, av_vars>>

\* The "Analisar Pack" button
AnalisarPack ==
    /\ Waiting
    /\ run_pack_analysis' = TRUE
    /\ UNCHANGED <<selected_cell_type_pack, pack_cell_data, total_pack_voltage_input>>
    /\ Rerun
    /\ UNCHANGED <<cell_vars, ps_vars, av_vars>>

\* The "Resetar Dados do Pack" button; the total-voltage widget keeps its
\* value (the handler assigns only the local name)
ResetarPack ==
    /\ Waiting
    /\ pack_cell_data' = DefaultPackData(selected_cell_type_pack)
    /\ run_pack_analysis' = FALSE
    /\ UNCHANGED <<selected_cell_type_pack, total_pack_voltage_input>>
    /\ Rerun
    /\ UNCHANGED <<cell_vars, ps_vars, av_vars>>

RECURSIVE Coluna(_, _)
\* A column of the table as a list
Coluna(dados, campo) ==
    IF dados = <<>> THEN <<>>
    ELSE <<Head(dados)[campo]>> \o Coluna(Tail(dados), campo)

\* Variant of Discrepancia: the difference is signed (no abs)
Discrepancia_SemAbs(total, soma) == total - soma > 500

\* abs(total - soma) > 0.5
Discrepancia(total, soma) == Abs(total - soma) > 500

\* Variant of AtualizaStatusGeral: compares the labels, not their ranks
AtualizaStatusGeral_Rotulo(base, status_celula) ==
    IF status_celula # base THEN status_celula ELSE base

\* Variant of AtualizaStatusGeral: the status of the cell always replaces
\* the running verdict
AtualizaStatusGeral_Ultimo(base, status_celula) == status_celula

\* One step of the worst-case fold over the cell statuses
AtualizaStatusGeral(base, status_celula) ==
    IF status_pack_ordem[status_celula] > status_pack_ordem[base]
    THEN status_celula
    ELSE base

RECURSIVE Agrega(_, _)
\* The fold over a list of cell statuses, started at the pack-voltage status
Agrega(base, statuses) ==
    IF statuses = <<>> THEN base
    ELSE Agrega(AtualizaStatusGeral(base, Head(statuses)), Tail(statuses))

\* Start of the analysis block: means, sum, pack-voltage status,
\* discrepancy warning, and the start value of the pack verdict
AnalisePack ==
    /\ pk_pc = "analise"
    /\ LET ocv_values_pack == Coluna(pack_cell_data, "ocv")
           ir_values_pack == Coluna(pack_cell_data, "ir")
           soma == SumSeq(ocv_values_pack)
           pv == avaliar_pack_voltage(total_pack_voltage_input, current_pack_specs_pack)
       IN  /\ ocv_media_pack' = np_mean(ocv_values_pack)
           /\ ir_media_pack' = np_mean(ir_values_pack)
           /\ ocv_soma_calculada_pack' = soma
           /\ status_pack_v' = pv.status
           /\ motivos_pack_v' = pv.motivos
           /\ discrepancy_warning_text' =
                IF Discrepancia(total_pack_voltage_input, soma)
                THEN "difere significativamente da soma das OCVs individuais"
                ELSE None
           /\ status_pack_geral_base' = pv.status
    /\ resultados_celulas_pack' = <<>>
    /\ pk_i' = 1
    /\ pk_pc' = "celulas"
    /\ UNCHANGED pack_session
    /\ UNCHANGED <<cell_vars, ps_vars, av_vars>>

\* One iteration of the loop over the cells; an exception of the
\* evaluator ends the script run
AvaliaCelulaPack ==
    /\ pk_pc = "celulas"
    /\ pk_i <= Len(pack_cell_data)
    /\ LET c == pack_cell_data[pk_i]
           res == avaliar_celula_individual(c.ocv, c.ir, current_cell_specs_pack,
                                            ocv_media_pack, ir_media_pack, FALSE)
       IN  IF res.exc # None
           THEN /\ pk_pc' = "erro"
                /\ UNCHANGED <<status_pack_geral_base, resultados_celulas_pack, pk_i>>
           ELSE /\ status_pack_geral_base' =
                        AtualizaStatusGeral(status_pack_geral_base, res.status)
                /\ resultados_celulas_pack' =
                        Append(resultados_celulas_pack,
                               [Status |-> res.status, Observacoes |-> res.motivos])
                /\ pk_i' = pk_i + 1
                /\ pk_pc' = "celulas"
    /\ UNCHANGED <<ocv_media_pack, ir_media_pack, ocv_soma_calculada_pack,
                   status_pack_v, motivos_pack_v, discrepancy_warning_text>>
    /\ UNCHANGED pack_session
    /\ UNCHANGED <<cell_vars, ps_vars, av_vars>>

\* After the loop the pack verdict is shown
MostraStatusGeral ==
    /\ pk_pc = "celulas"
    /\ pk_i > Len(pack_cell_data)
    /\ pk_pc' = "done"
    /\ UNCHANGED pack_locals
    /\ UNCHANGED pack_session
    /\ UNCHANGED <<cell_vars, ps_vars, av_vars>>

NextPack ==
    \/ SelectCellType
    \/ EditOcv
    \/ EditIr
    \/ EditTotal
    \/ AnalisarPack
    \/ ResetarPack
    \/ AnalisePack
    \/ AvaliaCelulaPack
    \/ MostraStatusGeral

\* ------------------------------------------------------------------------
\* One call of calculate_pack_specs
\* ------------------------------------------------------------------------
\* Largest series count passed to calculate_pack_specs
MaxNumSeries == 13

\* Series counts passed explicitly
NumSeriesArgs == (-1)..MaxNumSeries

\* Cell specifications passed: the registry, and other specifications with
\* cutoff < nominal < max charge
CellSpecArgs ==
    {ALL_CELL_SPECS[t] : t \in CellTypes}
    \cup {[FABRICANTE |-> "Outro", TENSAO_NOMINAL |-> nom, TENSAO_CARGA_MAX |-> mx,
            TENSAO_CORTE |-> co, IR_NOVA_TIPICA |-> 16000] :
                <<co, nom, mx>> \in
                    {c \in {2000, 2500, 2750, 3000}
                            \X {3200, 3291, 3292, 3541, 3542}
                            \X {3650, 4200} :
                        c[1] < c[2] /\ c[2] < c[3]}}

\* No pack_specs: before the return
SemPackSpecs ==
    [ NUM_CELULAS_SERIE |-> 0,
      PACK_TENSAO_MAX |-> 0,
      PACK_TENSAO_NOMINAL |-> 0,
      PACK_TENSAO_CORTE |-> 0,
      PACK_TENSAO_LIMIAR_BOM_MIN |-> 0,
      PACK_TENSAO_LIMIAR_MONITOR_MIN |-> 0,
      PACK_TENSAO_LIMIAR_RUIM_MIN |-> 0,
      PACK_TENSAO_LIMIAR_CRITICO_MIN |-> 0 ]

InitPackSpecs ==
    /\ ps_pc = "idle"
    /\ ps_cell = ALL_CELL_SPECS["Sony"]
    /\ ps_n = NUM_CELLS_SERIES_DEFAULT
    /\ ps_omitido = TRUE
    /\ ps_exc = None
    /\ ps_ret = SemPackSpecs
    /\ ps_total = 0
    /\ ps_status_v = None
    /\ ps_motivos_v = <<>>

\* calculate_pack_specs(cell_specs_individual, num_cells_series); the
\* function has no raise statement and no operation that can fail
CallPackSpecs ==
    /\ ps_pc = "idle"
    /\ \E c \in CellSpecArgs, n \in NumSeriesArgs :
        /\ ps_cell' = c
        /\ ps_n' = n
        /\ ps_ret' = calculate_pack_specs(c, n)
    /\ ps_omitido' = FALSE
    /\ ps_exc' = None
    /\ ps_pc' = "done"
    /\ UNCHANGED <<ps_total, ps_status_v, ps_motivos_v>>
    /\ UNCHANGED <<cell_vars, pack_vars, av_vars>>

\* calculate_pack_specs(cell_specs_individual): num_cells_series is 12
CallPackSpecsDefault ==
    /\ ps_pc = "idle"
    /\ \E c \in CellSpecArgs :
        /\ ps_cell' = c
        /\ ps_ret' = calculate_pack_specs(c, NUM_CELLS_SERIES_DEFAULT)
    /\ ps_n' = NUM_CELLS_SERIES_DEFAULT
    /\ ps_omitido' = TRUE
    /\ ps_exc' = None
    /\ ps_pc' = "done"
    /\ UNCHANGED <<ps_total, ps_status_v, ps_motivos_v>>
    /\ UNCHANGED <<cell_vars, pack_vars, av_vars>>

\* Measured totals passed to avaliar_pack_voltage: within 1 mV of each
\* threshold of the pack_specs and of the overcharge margin
TotaisMedidos(pack_specs) ==
    {t \div 3 + d :
        t \in {pack_specs.PACK_TENSAO_MAX,
               pack_specs.PACK_TENSAO_MAX + 300,
               pack_specs.PACK_TENSAO_LIMIAR_BOM_MIN,
               pack_specs.PACK_TENSAO_LIMIAR_MONITOR_MIN,
               pack_specs.PACK_TENSAO_LIMIAR_RUIM_MIN,
               pack_specs.PACK_TENSAO_LIMIAR_CRITICO_MIN},
        d \in {-1, 0, 1}}

\* avaliar_pack_voltage(total_pack_voltage_medido, current_pack_specs) on
\* the pack_specs just returned
CallPackVoltage ==
    /\ ps_pc = "done"
    /\ \E t \in TotaisMedidos(ps_ret) :
        /\ ps_total' = t
        /\ ps_status_v' = avaliar_pack_voltage(t, ps_ret).status
        /\ ps_motivos_v' = avaliar_pack_voltage(t, ps_ret).motivos
    /\ ps_pc' = "avaliado"
    /\ UNCHANGED <<ps_cell, ps_n, ps_omitido, ps_exc, ps_ret>>
    /\ UNCHANGED <<cell_vars, pack_vars, av_vars>>

\* The caller takes the result; the function keeps no state
FimPackSpecs ==
    /\ ps_pc \in {"done", "avaliado"}
    /\ ps_pc' = "idle"
    /\ ps_cell' = ALL_CELL_SPECS["Sony"]
    /\ ps_n' = NUM_CELLS_SERIES_DEFAULT
    /\ ps_omitido' = TRUE
    /\ ps_exc' = None
    /\ ps_ret' = SemPackSpecs
    /\ ps_total' = 0
    /\ ps_status_v' = None
    /\ ps_motivos_v' = <<>>
    /\ UNCHANGED <<cell_vars, pack_vars, av_vars>>

NextPackSpecs ==
    \/ CallPackSpecs
    \/ CallPackSpecsDefault
    \/ CallPackVoltage
    \/ FimPackSpecs

\* ------------------------------------------------------------------------
\* The loose-cell tab
\* ------------------------------------------------------------------------
\* Longest loose-cell list
MaxAvulsas == 3

\* Values the user types into the fields of a new cell; 2.996 V is shown as
\* 3.00 V and 29.996 mOhm as 30.00 mOhm. None of them lies halfway between
\* two hundredths.
AvulsaIds == {"", "A", "B", "C"}

AvulsaOcvs == {2996, 4200}

AvulsaIrs == {16000, 29996}

\* A number held as a float (thousandths), and a number held as text with
\* two decimals (hundredths)
Float(x) == [t |-> "float", v |-> x]

Texto2(h) == [t |-> "str", v |-> h]

\* f"{x:.2f}" for x >= 0: rounded to the nearest hundredth
fmt2(x) == Texto2((x + 5) \div 10)

\* pd.to_numeric of a float or of a text with two decimals
to_numeric(val) == IF val.t = "float" THEN val.v ELSE 10 * val.v

\* The record "Adicionar Celula" appends (the test date is left out)
NovaCelula(id, o, i) ==
    [id |-> id, ocv |-> Float(o), ir |-> Float(i),
     Status |-> None, Observacoes |-> <<>>]

\* current_ids
IdsDe(dados) == {dados[k].id : k \in 1..Len(dados)}

\* Variant of IdDuplicado: only the last record is compared
IdDuplicado_Ultimo(id, dados) ==
    dados # <<>> /\ dados[Len(dados)].id = id

\* new_cell_id in current_ids
IdDuplicado(id, dados) == id \in IdsDe(dados)

\* File contents: what json.loads makes of them
JsonNone == [kind |-> "None", fabricante |-> "", results |-> <<>>]

\* Files that do not come from this program: not JSON; a JSON number; a
\* JSON object without 'individual_cell_results'; a JSON object with
\* 'individual_cell_results' whose 'header_info' is not an object
ArquivosExternos ==
    { [kind |-> "invalido", fabricante |-> "", results |-> <<>>],
      [kind |-> "numero", fabricante |-> "", results |-> <<>>],
      [kind |-> "sem_chave", fabricante |-> "", results |-> <<>>],
      [kind |-> "header_invalido", fabricante |-> "Sony",
       results |-> <<NovaCelula("Z", 4200, 16000)>>] }

\* all_results_data_avulsas through json.dumps
json_dumps_avulsas(resultados, tipo) ==
    [kind |-> "valido",
     fabricante |-> ALL_CELL_SPECS[tipo].FABRICANTE,
     results |-> resultados]

current_cell_specs_avulsa == ALL_CELL_SPECS[selected_cell_type_avulsa]

\* One row of the analysis
AnalisaLinha(row, specs) ==
    LET o == to_numeric(row.ocv)
        i == to_numeric(row.ir)
        res == avaliar_celula_individual(o, i, specs, NoneMedia, NoneMedia, TRUE)
    IN  [id |-> row.id, ocv |-> fmt2(o), ir |-> fmt2(i),
         Status |-> res.status, Observacoes |-> res.motivos]

\* Row a comes before row b: smaller IR first, then larger OCV
Antes(a, b) ==
    \/ to_numeric(a.ir) < to_numeric(b.ir)
    \/ to_numeric(a.ir) = to_numeric(b.ir) /\ to_numeric(a.ocv) > to_numeric(b.ocv)

RECURSIVE Insere(_, _)
Insere(r, s) ==
    IF s = <<>> THEN <<r>>
    ELSE IF Antes(r, Head(s)) THEN <<r>> \o s
    ELSE <<Head(s)>> \o Insere(r, Tail(s))

RECURSIVE Ordena(_, _)
Ordena(feito, resto) ==
    IF resto = <<>> THEN feito
    ELSE Ordena(Insere(Head(resto), feito), Tail(resto))

\* sort_values(by IR ascending, OCV descending); rows with equal keys keep
\* their order
sort_values(s) == Ordena(<<>>, s)

\* The try block of the JSON upload processing: the message shown and the
\* session state it leaves. A 'header_info' that is not an object raises
\* AttributeError after avulsa_cell_data has been assigned.
processa_json(conteudo, dados, run, tipo) ==
    IF conteudo.kind = "valido"
    THEN [msg |-> "sucesso", dados |-> conteudo.results, run |-> FALSE,
          tipo |-> IF conteudo.fabricante = "Sony" THEN "Sony" ELSE "Panasonic",
          string |-> JsonNone, rerun |-> TRUE]
    ELSE IF conteudo.kind = "header_invalido"
    THEN [msg |-> "erro_inesperado", dados |-> conteudo.results, run |-> run,
          tipo |-> tipo, string |-> JsonNone, rerun |-> FALSE]
    ELSE IF conteudo.kind = "sem_chave"
    THEN [msg |-> "sem_chave", dados |-> dados, run |-> run,
          tipo |-> tipo, string |-> JsonNone, rerun |-> FALSE]
    ELSE IF conteudo.kind = "invalido"
    THEN [msg |-> "json_invalido", dados |-> dados, run |-> run,
          tipo |-> tipo, string |-> JsonNone, rerun |-> FALSE]
    ELSE [msg |-> "erro_inesperado", dados |-> dados, run |-> run,
          tipo |-> tipo, string |-> JsonNone, rerun |-> FALSE]

InitAvulsa ==
    /\ selected_cell_type_avulsa = "Sony"
    /\ avulsa_cell_data = <<>>
    /\ run_avulsa_analysis = FALSE
    /\ uploaded_avulsa_json_string = JsonNone
    /\ process_avulsa_json_flag = FALSE
    /\ av_pc = "idle"
    /\ av_evento = None
    /\ new_cell_id = ""
    /\ av_msg = None
    /\ df_resultados_avulsas = <<>>

\* A widget event starts a script run: the locals of the previous run are
\* gone; the run goes on to the JSON block and the analysis block, and at
\* its end the button and the ID field of the event are no longer set.
NovaExecucao(evento) ==
    /\ av_evento' = evento
    /\ av_msg' = None
    /\ df_resultados_avulsas' = <<>>
    /\ av_pc' = "json"

\* The cell-type selectbox
SelectCellTypeAvulsa ==
    /\ av_pc = "idle"
    /\ \E t \in CellTypes :
        /\ t # selected_cell_type_avulsa
        /\ selected_cell_type_avulsa' = t
    /\ NovaExecucao("tipo")
    /\ UNCHANGED <<avulsa_cell_data, run_avulsa_analysis, uploaded_avulsa_json_string,
                   process_avulsa_json_flag, new_cell_id>>
    /\ UNCHANGED <<cell_vars, pack_vars, ps_vars>>

\* The "Adicionar Celula" button with the values of the three fields
AdicionarCelula ==
    /\ av_pc = "idle"
    /\ \E id \in AvulsaIds, o \in AvulsaOcvs, i \in AvulsaIrs :
        /\ new_cell_id' = id
        /\ IF id # "" /\ ~IdDuplicado(id, avulsa_cell_data)
           THEN /\ Len(avulsa_cell_data) < MaxAvulsas
                /\ avulsa_cell_data' = Append(avulsa_cell_data, NovaCelula(id, o, i))
           ELSE UNCHANGED avulsa_cell_data
    /\ NovaExecucao("adicionar")
    /\ UNCHANGED <<selected_cell_type_avulsa, run_avulsa_analysis,
                   uploaded_avulsa_json_string, process_avulsa_json_flag>>
    /\ UNCHANGED <<cell_vars, pack_vars, ps_vars>>

\* The "Analisar Celulas Avulsas" button
AnalisarAvulsas ==
    /\ av_pc = "idle"
    /\ run_avulsa_analysis' =
            IF avulsa_cell_data = <<>> THEN run_avulsa_analysis ELSE TRUE
    /\ NovaExecucao("analisar")
    /\ UNCHANGED <<selected_cell_type_avulsa, avulsa_cell_data,
                   uploaded_avulsa_json_string, process_avulsa_json_flag,
                   new_cell_id>>
    /\ UNCHANGED <<cell_vars, pack_vars, ps_vars>>

\* The "Resetar Dados de Celulas Avulsas" button
ResetarAvulsas ==
    /\ av_pc = "idle"
    /\ avulsa_cell_data' = <<>>
    /\ run_avulsa_analysis' = FALSE
    /\ uploaded_avulsa_json_string' = JsonNone
    /\ process_avulsa_json_flag' = FALSE
    /\ NovaExecucao("resetar")
    /\ UNCHANGED <<selected_cell_type_avulsa, new_cell_id>>
    /\ UNCHANGED <<cell_vars, pack_vars, ps_vars>>

\* Files the user can put into the uploader: the export of the results on
\* the screen, or a file from elsewhere
ArquivosDoUsuario ==
    ArquivosExternos \cup
    (IF df_resultados_avulsas = <<>> THEN {}
     ELSE {json_dumps_avulsas(df_resultados_avulsas, selected_cell_type_avulsa)})

\* on_avulsa_json_upload_change with a file in the uploader
UploadJson ==
    /\ av_pc = "idle"
    /\ \E f \in ArquivosDoUsuario : uploaded_avulsa_json_string' = f
    /\ process_avulsa_json_flag' = TRUE
    /\ NovaExecucao("upload")
    /\ UNCHANGED <<selected_cell_type_avulsa, avulsa_cell_data, run_avulsa_analysis,
                   new_cell_id>>
    /\ UNCHANGED <<cell_vars, pack_vars, ps_vars>>

\* on_avulsa_json_upload_change with the uploader cleared
LimpaUpload ==
    /\ av_pc = "idle"
    /\ uploaded_avulsa_json_string' = JsonNone
    /\ process_avulsa_json_flag' = FALSE
    /\ NovaExecucao("limpar_upload")
    /\ UNCHANGED <<selected_cell_type_avulsa, avulsa_cell_data, run_avulsa_analysis,
                   new_cell_id>>
    /\ UNCHANGED <<cell_vars, pack_vars, ps_vars>>

\* The JSON download button, shown with the results: the browser saves
\* the file and the script runs again
DownloadJson ==
    /\ av_pc = "idle"
    /\ df_resultados_avulsas # <<>>
    /\ NovaExecucao("download")
    /\ UNCHANGED <<av_session, new_cell_id>>
    /\ UNCHANGED <<cell_vars, pack_vars, ps_vars>>

\* The JSON upload processing block of the script run; st.rerun() on the
\* success path starts the script again
ProcessaJson ==
    /\ av_pc = "json"
    /\ IF process_avulsa_json_flag /\ uploaded_avulsa_json_string # JsonNone
       THEN LET r == processa_json(uploaded_avulsa_json_string, avulsa_cell_data,
                                   run_avulsa_analysis, selected_cell_type_avulsa)
            IN  /\ process_avulsa_json_flag' = FALSE
                /\ avulsa_cell_data' = r.dados
                /\ run_avulsa_analysis' = r.run
                /\ selected_cell_type_avulsa' = r.tipo
                /\ uploaded_avulsa_json_string' = r.string
                /\ av_msg' = r.msg
                /\ av_pc' = IF r.rerun THEN "json" ELSE "analise"
       ELSE /\ av_msg' = None
            /\ av_pc' = "analise"
            /\ UNCHANGED av_session
    /\ UNCHANGED <<av_evento, new_cell_id, df_resultados_avulsas>>
    /\ UNCHANGED <<cell_vars, pack_vars, ps_vars>>

\* The analysis block of the script run: every row evaluated as a loose
\* cell, the results sorted
AnaliseAvulsas ==
    /\ av_pc = "analise"
    /\ df_resultados_avulsas' =
            IF run_avulsa_analysis /\ avulsa_cell_data # <<>>
            THEN sort_values([k \in 1..Len(avulsa_cell_data) |->
                                AnalisaLinha(avulsa_cell_data[k], current_cell_specs_avulsa)])
            ELSE <<>>
    /\ av_pc' = "idle"
    /\ av_evento' = None
    /\ new_cell_id' = ""
    /\ UNCHANGED <<av_session, av_msg>>
    /\ UNCHANGED <<cell_vars, pack_vars, ps_vars>>

NextAvulsa ==
    \/ SelectCellTypeAvulsa
    \/ AdicionarCelula
    \/ AnalisarAvulsas
    \/ ResetarAvulsas
    \/ UploadJson
    \/ LimpaUpload
    \/ DownloadJson
    \/ ProcessaJson
    \/ AnaliseAvulsas

Init == InitCell /\ InitPack /\ InitPackSpecs /\ InitAvulsa

Next == NextCell \/ NextPack \/ NextPackSpecs \/ NextAvulsa

Spec == Init /\ [][Next]_vars

SpecCell == Init /\ [][NextCell]_vars

SpecPack == Init /\ [][NextPack]_vars

SpecPackSpecs == Init /\ [][NextPackSpecs]_vars

SpecAvulsa == Init /\ [][NextAvulsa]_vars

\* ------------------------------------------------------------------------
\* Properties of the cell evaluator (checked under SpecCell)
\* ------------------------------------------------------------------------
Rank(s) == status_pack_ordem[s]

Corte == ALL_CELL_SPECS[cell_tipo].TENSAO_CORTE

\* The call has returned a value
Returned == cell_pc = "done" /\ cell_ret.exc = None

\* The call is in pack context with a voltage mean
PackCtxOcv == ~is_avulsa /\ ocv_media # NoneMedia

\* The call is in pack context with a positive IR mean
PackCtxIr == ~is_avulsa /\ ir_media # NoneMedia /\ ir_media.num > 0

\* |ocv - ocv_media| > l (l in mV), and the IR percentage deviation > l
DesvioAcima(l) == Abs(ocv * ocv_media.den - ocv_media.num) > l * ocv_media.den

PctAcima(l) == (ir * ir_media.den - ir_media.num) * 100 > l * ir_media.num

\* Each rule condition with the severity it demands
RegrasExigencia ==
    { <<ocv < Corte, 3>>,
      <<ocv < 3000, 2>>,
      <<PackCtxOcv /\ DesvioAcima(100), 2>>,
      <<PackCtxOcv /\ DesvioAcima(50), 1>>,
      <<ir >= 30000, 2>>,
      <<ir > 20000, 1>>,
      <<PackCtxIr /\ PctAcima(50), 2>>,
      <<PackCtxIr /\ PctAcima(25), 1>> }

\* The severities demanded by the rules whose condition holds
Exigidos == {p[2] : p \in {q \in RegrasExigencia : q[1]}}

\* C2: within one call the running severity never decreases from one rule
\* to the next, and the returned severity is at least the severity demanded
\* by every rule whose condition holds.
C2_EscalationMonotonic ==
    /\ [][cell_pc \notin {"idle", "done"} => Rank(status') >= Rank(status)]_vars
    /\ [](Returned => \A d \in Exigidos : Rank(cell_ret.status) >= d)

\* C2 witness: a returned Ruim (low voltage) although the later IR rule
\* for 20..30 mOhm, which asks only for Monitorar, also had its condition.
C2_Witness ==
    /\ Returned
    /\ ocv < OCV_ABSOLUTO_LIMIAR_RUIM /\ ocv >= Corte
    /\ ir > 20000 /\ ir < 30000
    /\ cell_ret.status = "Ruim"

\* C3: the call returns Critico if and only if ocv < TENSAO_CORTE, for every
\* ir, every pack means and both values of is_avulsa; ocv equal to the
\* cutoff never yields Critico.
C3_CriticoIffBelowCutoff ==
    Returned => (cell_ret.status = "Critico" <=> ocv < Corte)

\* C3 witness: ocv exactly at the cutoff, with the deviation and IR rules
\* all firing, returned and not Critico.
C3_Witness ==
    /\ Returned
    /\ ocv = Corte
    /\ PackCtxOcv /\ DesvioAcima(100)
    /\ ir >= 30000
    /\ cell_ret.status # "Critico"

\* C4: for cutoff <= ocv < 3.00 V the call returns Ruim and its first
\* reason is the "OCV baixa ... Requer recarga urgente" message, whatever
\* the cell model, ir and pack means.
C4_LowVoltageRuim ==
    (Returned /\ Corte <= ocv /\ ocv < 3000)
        => (cell_ret.status = "Ruim" /\ Head(cell_ret.motivos) = M_OCV_BAIXA)

\* C4 witness: such a cell whose IR is also very high, in pack context.
C4_Witness ==
    /\ Returned
    /\ Corte <= ocv /\ ocv < 3000
    /\ ir >= 30000 /\ PackCtxIr /\ PackCtxOcv
    /\ cell_ret.status = "Ruim"

\* C5: in pack context with a voltage mean, a deviation above 0.10 V gives
\* at least Ruim, a deviation above 0.05 V and at most 0.10 V gives at least
\* Monitorar, and a deviation of at most 0.05 V contributes nothing: the
\* deviation block changes neither the severity nor the reasons.
C5_VoltageDeviation ==
    /\ [](Returned /\ PackCtxOcv /\ DesvioAcima(100)
            => Rank(cell_ret.status) >= 2)
    /\ [](Returned /\ PackCtxOcv /\ DesvioAcima(50)
            => Rank(cell_ret.status) >= 1)
    /\ [][(cell_pc = "desvio_ocv" /\ PackCtxOcv /\ ~DesvioAcima(50))
            => (status' = status /\ motivos' = motivos)]_vars

\* C5 witness: a deviation between 0.05 V and 0.10 V from a mean that is
\* not a whole number of millivolts, and the cell returned Monitorar.
C5_Witness ==
    /\ Returned
    /\ PackCtxOcv /\ ocv_media.den = 3
    /\ ~DesvioAcima(100) /\ DesvioAcima(50)
    /\ cell_ret.status = "Monitorar"
    /\ cell_ret.motivos = <<M_OCV_DESVIO_MODERADO>>

C7_AsClaimed ==
    [][(cell_pc = "ir" /\ status = "Bom" /\ ir >= 20000 /\ ir < 30000)
            => (status' = "Monitorar" /\ motivos' = Append(motivos, M_IR_MODERADA))]_vars

\* C8: in pack context with ir_media > 0, pct > 50 gives at least Ruim and
\* 25 < pct <= 50 gives at least Monitorar; when is_avulsa is True, or
\* ir_media is None, or ir_media <= 0, the percentage block is skipped: it
\* changes neither severity nor reasons and raises nothing.
C8_IrPctDeviation ==
    /\ [](Returned /\ PackCtxIr /\ PctAcima(50)
            => Rank(cell_ret.status) >= 2)
    /\ [](Returned /\ PackCtxIr /\ PctAcima(25)
            => Rank(cell_ret.status) >= 1)
    /\ [][(cell_pc = "desvio_ir" /\ ~PackCtxIr)
            => (status' = status /\ motivos' = motivos /\ cell_exc' = None)]_vars
    /\ [](cell_pc = "done" /\ ~PackCtxIr => cell_ret.exc = None)

\* C8 witness: a zero IR mean in pack context, and the call returned Bom
\* with the default reason.
C8_Witness ==
    /\ Returned
    /\ ~is_avulsa /\ ir_media # NoneMedia /\ ir_media.num = 0
    /\ cell_ret.status = "Bom"
    /\ cell_ret.motivos = <<M_PADRAO>>

\* ------------------------------------------------------------------------
\* Properties of the pack analysis (checked under SpecPack)
\* ------------------------------------------------------------------------
\* The pack-voltage status has been computed in this run
PackVDone == pk_pc \in {"celulas", "done"}

SetMax(S) == CHOOSE x \in S : \A y \in S : y <= x

\* The ranks of the statuses of the cells evaluated in this run
CellRanks ==
    {Rank(resultados_celulas_pack[k].Status) : k \in 1..Len(resultados_celulas_pack)}

\* C1: the pack verdict equals the maximum, under Bom < Monitorar < Ruim <
\* Critico, of the pack-voltage status and the statuses of all cells.
C1_VerdictIsMax ==
    pk_pc = "done" =>
        /\ Len(resultados_celulas_pack) = Len(pack_cell_data)
        /\ Rank(status_pack_geral_base) = SetMax({Rank(status_pack_v)} \cup CellRanks)

\* C1 witness: the verdict Ruim comes from the first cell, the pack voltage
\* is Bom and the last cell evaluated is below Ruim.
C1_Witness ==
    /\ pk_pc = "done"
    /\ status_pack_v = "Bom"
    /\ resultados_celulas_pack[1].Status = "Ruim"
    /\ resultados_celulas_pack[Len(resultados_celulas_pack)].Status = "Monitorar"
    /\ status_pack_geral_base = "Ruim"

\* The ladder of the pack-voltage evaluator as the claim lists it:
\* condition, severity, reason; voltages in thirds of a mV.
Escada ==
    LET m == 3 * total_pack_voltage_input
        sp == current_pack_specs_pack
    IN  << <<m > sp.PACK_TENSAO_MAX + 300, "Critico", P_ACIMA_MAX>>,
           <<m < sp.PACK_TENSAO_LIMIAR_CRITICO_MIN, "Critico", P_ABAIXO_CORTE>>,
           <<m < sp.PACK_TENSAO_LIMIAR_RUIM_MIN, "Ruim", P_MUITO_BAIXA>>,
           <<m < sp.PACK_TENSAO_LIMIAR_MONITOR_MIN, "Monitorar", P_BAIXA>>,
           <<m < sp.PACK_TENSAO_LIMIAR_BOM_MIN, "Monitorar", P_ABAIXO_NOMINAL>>,
           <<TRUE, "Bom", P_SAUDAVEL>> >>

PrimeiroDegrau ==
    CHOOSE k \in 1..Len(Escada) :
        Escada[k][1] /\ \A j \in 1..(k - 1) : ~Escada[j][1]

\* C9: avaliar_pack_voltage returns exactly one reason and the severity of
\* the first matching rule of the ladder: above max + 0.1 -> Critico; below
\* critical_min -> Critico; below bad_min -> Ruim; below monitor_min ->
\* Monitorar; below good_min -> Monitorar; otherwise Bom.
C9_FirstMatchLadder ==
    PackVDone =>
        /\ Len(motivos_pack_v) = 1
        /\ status_pack_v = Escada[PrimeiroDegrau][2]
        /\ motivos_pack_v[1] = Escada[PrimeiroDegrau][3]

\* C9 witness: a total below bad_min (and so below monitor_min and
\* good_min too) that is not below critical_min is reported Ruim.
C9_Witness ==
    /\ PackVDone
    /\ 3 * total_pack_voltage_input < current_pack_specs_pack.PACK_TENSAO_LIMIAR_RUIM_MIN
    /\ 3 * total_pack_voltage_input >= current_pack_specs_pack.PACK_TENSAO_LIMIAR_CRITICO_MIN
    /\ status_pack_v = "Ruim"
    /\ motivos_pack_v = <<P_MUITO_BAIXA>>

\* The measured total is above the pack maximum plus 0.1 V (in mV)
AcimaDoMaximo ==
    total_pack_voltage_input >
        MaxSeries * ALL_CELL_SPECS[selected_cell_type_pack].TENSAO_CARGA_MAX + 100

\* C10: whenever the measured total exceeds pack max + 0.1 V the
\* pack-voltage status is Critico with the overcharge reason and the pack
\* verdict is Critico, regardless of the cell statuses.
C10_OverchargeCritico ==
    (PackVDone /\ AcimaDoMaximo) =>
        /\ status_pack_v = "Critico"
        /\ motivos_pack_v = <<P_ACIMA_MAX>>
        /\ status_pack_geral_base = "Critico"

\* C10 witness: pack max + 0.2 V with every cell Bom, verdict Critico.
C10_Witness ==
    /\ pk_pc = "done"
    /\ total_pack_voltage_input =
        MaxSeries * ALL_CELL_SPECS[selected_cell_type_pack].TENSAO_CARGA_MAX + 200
    /\ \A k \in 1..Len(resultados_celulas_pack) :
            resultados_celulas_pack[k].Status = "Bom"
    /\ Len(resultados_celulas_pack) = Len(pack_cell_data)
    /\ status_pack_geral_base = "Critico"

\* ------------------------------------------------------------------------
\* calculate_pack_specs (claims C11 to C13)
\* ------------------------------------------------------------------------
\* calculate_pack_specs has returned
PackSpecsDone == ps_pc = "done" /\ ps_exc = None

\* The cell specification passed has cutoff < nominal < max charge
CellSpecOrdenada ==
    /\ ps_cell.TENSAO_CORTE < ps_cell.TENSAO_NOMINAL
    /\ ps_cell.TENSAO_NOMINAL < ps_cell.TENSAO_CARGA_MAX

\* critical_min == N * cutoff <= bad_min <= monitor_min <= good_min
\* <= N * nominal, on the returned pack_specs (thirds of a mV)
CadeiaLimiares ==
    /\ ps_ret.PACK_TENSAO_LIMIAR_CRITICO_MIN = 3 * ps_n * ps_cell.TENSAO_CORTE
    /\ ps_ret.PACK_TENSAO_LIMIAR_CRITICO_MIN <= ps_ret.PACK_TENSAO_LIMIAR_RUIM_MIN
    /\ ps_ret.PACK_TENSAO_LIMIAR_RUIM_MIN <= ps_ret.PACK_TENSAO_LIMIAR_MONITOR_MIN
    /\ ps_ret.PACK_TENSAO_LIMIAR_MONITOR_MIN <= ps_ret.PACK_TENSAO_LIMIAR_BOM_MIN
    /\ ps_ret.PACK_TENSAO_LIMIAR_BOM_MIN <= 3 * ps_n * ps_cell.TENSAO_NOMINAL

\* nominal - cutoff >= 13/24 V (0.5417 V), in mV
FolgaNominalCorte ==
    24 * (ps_cell.TENSAO_NOMINAL - ps_cell.TENSAO_CORTE) >= 13000

EmSerie(n, v) == SumSeq([k \in 1..n |-> 3 * v])

\* C12: calculate_pack_specs sets the pack max, nominal and cutoff to the
\* voltage of N cells in series (N times the cell's max charge, nominal and
\* cutoff), critical_min to the pack cutoff and NUM_CELULAS_SERIE to N, N
\* being 12 when the caller leaves it out.
C12_PackScaling ==
    (PackSpecsDone /\ ps_n > 0) =>
        /\ ps_omitido => ps_n = 12
        /\ ps_ret.NUM_CELULAS_SERIE = ps_n
        /\ ps_ret.PACK_TENSAO_MAX = EmSerie(ps_n, ps_cell.TENSAO_CARGA_MAX)
        /\ ps_ret.PACK_TENSAO_NOMINAL = EmSerie(ps_n, ps_cell.TENSAO_NOMINAL)
        /\ ps_ret.PACK_TENSAO_CORTE = EmSerie(ps_n, ps_cell.TENSAO_CORTE)
        /\ ps_ret.PACK_TENSAO_LIMIAR_CRITICO_MIN = ps_ret.PACK_TENSAO_CORTE

\* C12 witness: the Panasonic cell with N left out gives a 12-cell pack of
\* 50.4 V max, 43.2 V nominal and 33.0 V cutoff.
C12_Witness ==
    /\ PackSpecsDone
    /\ ps_omitido
    /\ ps_cell = ALL_CELL_SPECS["Panasonic"]
    /\ ps_ret.NUM_CELULAS_SERIE = 12
    /\ ps_ret.PACK_TENSAO_MAX = 3 * 50400
    /\ ps_ret.PACK_TENSAO_NOMINAL = 3 * 43200
    /\ ps_ret.PACK_TENSAO_CORTE = 3 * 33000
    /\ ps_ret.PACK_TENSAO_LIMIAR_CRITICO_MIN = 3 * 33000

\* C13 as claimed: whenever N <= 0 calculate_pack_specs fails with
\* InvalidConfiguration and returns no pack specification.
C13_AsClaimed ==
    (ps_pc = "done" /\ ps_n <= 0) =>
        /\ ps_exc = "InvalidConfiguration"
        /\ ps_ret = SemPackSpecs

\* ------------------------------------------------------------------------
\* avaliar_celula_individual: errors, loose cells, reasons (claims C14 to C20)
\* ------------------------------------------------------------------------
\* C14 as claimed: whenever ocv < 0 or ir < 0 the call fails with
\* InvalidMeasurement and returns no severity; a negative measurement is
\* never classified.
C14_AsClaimed ==
    (cell_pc = "done" /\ (ocv < 0 \/ ir < 0)) =>
        /\ cell_ret.exc = "InvalidMeasurement"
        /\ cell_ret.status = None

\* Neither measurement is negative
MedidasNaoNegativas == ocv >= 0 /\ ir >= 0

\* Exactly one of the two pack means is supplied to a pack-cell call
UmaMediaSo == ~is_avulsa /\ ((ocv_media = NoneMedia) # (ir_media = NoneMedia))

\* C15 as claimed: with is_avulsa False and exactly one of the two pack
\* means supplied, the call either fails or applies no pack-relative check
\* at all (its result is that of the call without any mean): it never
\* applies the voltage-deviation check without the IR-deviation check, or
\* the reverse.
C15_AsClaimed ==
    (cell_pc = "done" /\ MedidasNaoNegativas /\ UmaMediaSo) =>
        \/ cell_ret.exc # None
        \/ cell_ret = avaliar_celula_individual(ocv, ir, ALL_CELL_SPECS[cell_tipo],
                                                NoneMedia, NoneMedia, FALSE)

\* C16: with is_avulsa True the result is the same for every pair of values
\* of ocv_media and ir_media, None included; and when ocv >= 3.00 V,
\* ocv >= cutoff and ir <= 20 mOhm the result is exactly Bom with the
\* default reason as its single reason.
C16_LooseCellIgnoresMeans ==
    (cell_pc = "done" /\ is_avulsa) =>
        /\ \A om \in OcvMedias, im \in IrMedias :
              cell_ret = avaliar_celula_individual(ocv, ir, ALL_CELL_SPECS[cell_tipo],
                                                   om, im, TRUE)
        /\ (ocv >= 3000 /\ ocv >= Corte /\ ir <= 20000) =>
              /\ cell_ret.exc = None
              /\ cell_ret.status = "Bom"
              /\ cell_ret.motivos = <<M_PADRAO>>

\* C16 witness: a loose cell at 3.00 V and 20 mOhm, called with a voltage
\* mean 1 V above it and an IR mean of 12 mOhm, is Bom with the default
\* reason.
C16_Witness ==
    /\ Returned
    /\ is_avulsa
    /\ ocv = 3000 /\ ocv_media = Frac(4000, 1)
    /\ ir = 20000 /\ ir_media = Frac(12000, 1)
    /\ cell_ret.status = "Bom"
    /\ cell_ret.motivos = <<M_PADRAO>>

\* The reasons of a returned result, as a set
MotivosRetornados == {cell_ret.motivos[k] : k \in 1..Len(cell_ret.motivos)}

\* C17: the call returns the default reason 'Dentro dos parametros
\* esperados.' as its only reason exactly when the returned severity is
\* Bom; a result above Bom never carries the default reason.
C17_DefaultReasonIffBom ==
    Returned =>
        /\ (cell_ret.motivos = <<M_PADRAO>>) <=> (cell_ret.status = "Bom")
        /\ cell_ret.status # "Bom" => M_PADRAO \notin MotivosRetornados

\* C17 witness: a pack cell with both means supplied that no rule touches
\* returns Bom with the default reason.
C17_Witness ==
    /\ Returned
    /\ PackCtxOcv /\ PackCtxIr
    /\ cell_ret.status = "Bom"
    /\ cell_ret.motivos = <<M_PADRAO>>

\* The reason of each of the four rules when its condition holds, in rule
\* order (a rule has at most one reason: that of its first true branch)
MotivosDasRegras ==
    (IF ocv < Corte THEN <<M_OCV_MUITO_BAIXA>>
     ELSE IF ocv < 3000 THEN <<M_OCV_BAIXA>> ELSE <<>>)
    \o (IF PackCtxOcv /\ DesvioAcima(100) THEN <<M_OCV_ALTO_DESVIO>>
        ELSE IF PackCtxOcv /\ DesvioAcima(50) THEN <<M_OCV_DESVIO_MODERADO>>
        ELSE <<>>)
    \o (IF ir >= 30000 THEN <<M_IR_MUITO_ALTA>>
        ELSE IF ir > 20000 THEN <<M_IR_POUCO_ACIMA>> ELSE <<>>)
    \o (IF PackCtxIr /\ PctAcima(50) THEN <<M_IR_ALTO_DESVIO_PCT>>
        ELSE IF PackCtxIr /\ PctAcima(25) THEN <<M_IR_DESVIO_PCT_MODERADO>>
        ELSE <<>>)

\* C18 as claimed: the returned reasons are the reasons of all the rules
\* whose condition holds, in rule order 1 to 4 (the default reason when
\* there is none); a rule whose condition holds contributes its reason even
\* when the severity had already reached or passed its level, so ocv below
\* 3.00 V with ir >= 30 mOhm reports both reasons.
C18_AsClaimed ==
    (Returned /\ MedidasNaoNegativas) =>
        cell_ret.motivos =
            IF MotivosDasRegras = <<>> THEN <<M_PADRAO>> ELSE MotivosDasRegras

\* The voltage checks leave the severity of a pack cell below Ruim
TensaoAbaixoDeRuim ==
    /\ ocv >= Corte /\ ocv >= 3000
    /\ ~(PackCtxOcv /\ DesvioAcima(100))

\* C19: a pack cell with ir = 35 mOhm in a pack whose IR mean is 20 mOhm,
\* whose voltage checks leave the severity below Ruim, is Ruim and its
\* reasons include 'IR muito alta': the absolute IR rule is evaluated
\* before the percentage rule, whose reason is therefore not reported.
C19_ScenarioC ==
    (Returned /\ ~is_avulsa /\ ir = 35000 /\ ir_media = Frac(20000, 1)
              /\ TensaoAbaixoDeRuim) =>
        /\ cell_ret.status = "Ruim"
        /\ M_IR_MUITO_ALTA \in MotivosRetornados
        /\ M_IR_ALTO_DESVIO_PCT \notin MotivosRetornados

\* C19 witness: such a cell 0.10 V above the pack's voltage mean: Monitorar
\* after the voltage checks, Ruim with both reasons in the end.
C19_Witness ==
    /\ Returned
    /\ ~is_avulsa /\ ir = 35000 /\ ir_media = Frac(20000, 1)
    /\ PctAcima(50)
    /\ ocv = 4100 /\ ocv_media = Frac(4000, 1)
    /\ cell_ret.status = "Ruim"
    /\ cell_ret.motivos = <<M_OCV_DESVIO_MODERADO, M_IR_MUITO_ALTA>>

\* The low cell of the 12-cell pack of eleven cells at 4.20 V and one at
\* 3.00 V (mean 4.10 V), cutoff 2.50 V, with good IRs
CelulaBaixaCenarioA ==
    /\ ~is_avulsa
    /\ Corte = 2500
    /\ ocv = CenarioA_OCV[12]
    /\ ocv_media = np_mean(CenarioA_OCV)
    /\ ir = 16000 /\ ir_media = Frac(16000, 1)

\* C20 as claimed: the 3.00 V cell is Ruim by the absolute low-voltage
\* rule firing first, its reasons mentioning 'recarga urgente'.
C20_AsClaimed ==
    (Returned /\ CelulaBaixaCenarioA) =>
        /\ cell_ret.status = "Ruim"
        /\ Head(cell_ret.motivos) = M_OCV_BAIXA

\* C20 amended: the 3.00 V cell is Ruim by the voltage-deviation rule (it is
\* 1.10 V from the mean); 3.00 V is not below the 3.00 V threshold, so the
\* absolute low-voltage rule does not fire and the only reason is the
\* 'alto desvio da media do pack' one.
C20_ScenarioALowCell ==
    (Returned /\ CelulaBaixaCenarioA) =>
        /\ cell_ret.status = "Ruim"
        /\ cell_ret.motivos = <<M_OCV_ALTO_DESVIO>>

\* C20 witness: the call for that cell has returned Ruim, the mean being
\* 49.2 V / 12 = 4.10 V.
C20_Witness ==
    /\ Returned
    /\ CelulaBaixaCenarioA
    /\ ocv = 3000
    /\ ocv_media.num = 4100 * ocv_media.den
    /\ DesvioAcima(1099) /\ ~DesvioAcima(1100)
    /\ cell_ret.status = "Ruim"

\* ------------------------------------------------------------------------
\* avaliar_celula_individual: scenario A, monotonicity (claims C21 to C23)
\* ------------------------------------------------------------------------
\* One of the eleven 4.20 V cells of the 12-cell pack of eleven cells at
\* 4.20 V and one at 3.00 V (mean 4.10 V), every IR equal and at most
\* 20 mOhm
OutraCelulaCenarioA ==
    /\ ~is_avulsa
    /\ ocv = CenarioA_OCV[1]
    /\ ocv_media = np_mean(CenarioA_OCV)
    /\ ir > 0 /\ ir <= 20000
    /\ ir_media = Frac(ir, 1)

\* C21 as claimed: each of the eleven 4.20 V cells of scenario A is
\* classified Bom.
C21_AsClaimed ==
    (Returned /\ OutraCelulaCenarioA) => cell_ret.status = "Bom"

\* C21 amended: each of the eleven 4.20 V cells of scenario A is classified
\* above Bom (Monitorar at the least) by the voltage-deviation rule, its
\* first reason being a deviation-from-the-pack-mean message: the cell is
\* 0.10 V from the mean of 4.10 V, which is above the 0.05 V threshold.
C21_ScenarioAOtherCells ==
    (Returned /\ OutraCelulaCenarioA) =>
        /\ cell_ret.status \in {"Monitorar", "Ruim"}
        /\ Head(cell_ret.motivos) \in {M_OCV_DESVIO_MODERADO, M_OCV_ALTO_DESVIO}

\* C21 witness: the call for a 4.20 V cell of that pack (16 mOhm, like the
\* mean) has returned and is not Bom.
C21_Witness ==
    /\ Returned
    /\ OutraCelulaCenarioA
    /\ ocv = 4200 /\ ir = 16000
    /\ ocv_media.num = 4100 * ocv_media.den
    /\ DesvioAcima(50)
    /\ cell_ret.status # "Bom"

\* The result of the call in progress had its ir been i, or its ocv been o
ComIr(i) ==
    avaliar_celula_individual(ocv, i, ALL_CELL_SPECS[cell_tipo],
                              ocv_media, ir_media, is_avulsa)

ComOcv(o) ==
    avaliar_celula_individual(o, ir, ALL_CELL_SPECS[cell_tipo],
                              ocv_media, ir_media, is_avulsa)

\* C22: monotonicity in IR: for fixed cell spec, ocv, is_avulsa and pack
\* means (ir_media None or > 0), ir1 <= ir2 implies that the severity with
\* ir1 is at most the severity with ir2.
C22_MonotonicInIr ==
    (Returned /\ (ir_media = NoneMedia \/ ir_media.num > 0)) =>
        \A i2 \in CellIrs :
            ir <= i2 => Rank(cell_ret.status) <= Rank(ComIr(i2).status)

\* C22 witness: a pack cell that is Bom at 20 mOhm and would be Ruim at
\* 35 mOhm, and an IR below the pack mean that is Bom.
C22_Witness ==
    /\ Returned
    /\ PackCtxIr
    /\ ir = 20000
    /\ cell_ret.status = "Bom"
    /\ ComIr(35000).status = "Ruim"
    /\ ComIr(0).status = "Bom"

\* |o - ocv_media|, times the denominator of the mean
DesvioDe(o) == Abs(o * ocv_media.den - ocv_media.num)

\* C23 as claimed: monotonicity in voltage deviation: for fixed cell spec,
\* ir and pack means in pack context, |ocv1 - ocv_media| <= |ocv2 -
\* ocv_media| implies that the severity with ocv1 is at most the severity
\* with ocv2.
C23_AsClaimed ==
    (Returned /\ PackCtxOcv /\ MedidasNaoNegativas) =>
        \A o2 \in CellOcvs :
            (o2 >= 0 /\ DesvioDe(ocv) <= DesvioDe(o2))
                => Rank(cell_ret.status) <= Rank(ComOcv(o2).status)

\* The absolute voltage rules do not fire for o
SemRegraAbsoluta(o) == o >= 3000 /\ o >= Corte

\* C23 amended: for fixed cell spec, ir and pack means in pack context, and
\* two voltages that are both at or above 3.00 V and the cutoff (so that
\* neither absolute low-voltage rule fires), |ocv1 - ocv_media| <= |ocv2 -
\* ocv_media| implies that the severity with ocv1 is at most the severity
\* with ocv2.
C23_MonotonicInDeviation ==
    (Returned /\ PackCtxOcv /\ SemRegraAbsoluta(ocv)) =>
        \A o2 \in CellOcvs :
            (SemRegraAbsoluta(o2) /\ DesvioDe(ocv) <= DesvioDe(o2))
                => Rank(cell_ret.status) <= Rank(ComOcv(o2).status)

\* C23 witness: a cell 0.05 V above the mean of 4.00 V is Bom, and the same
\* cell would be Monitorar 0.051 V above it and Ruim 1.00 V below it.
C23_Witness ==
    /\ Returned
    /\ PackCtxOcv /\ ocv_media = Frac(4000, 1)
    /\ ocv = 4050
    /\ cell_ret.status = "Bom"
    /\ ComOcv(4051).status = "Monitorar"
    /\ ComOcv(3000).status = "Ruim"

\* ------------------------------------------------------------------------
\* The pack verdict and the discrepancy warning (claims C24, C25)
\* ------------------------------------------------------------------------
\* The statuses of the cells evaluated in this run, in table order
StatusCelulas ==
    [k \in 1..Len(resultados_celulas_pack) |-> resultados_celulas_pack[k].Status]

\* C24: the pack verdict is invariant under every permutation of the
\* sequence of cell statuses, for a fixed pack-voltage status: folding the
\* statuses of the run in any order gives the verdict of the run.
C24_PermutationInvariant ==
    pk_pc = "done" =>
        \A p \in Permutations(1..Len(StatusCelulas)) :
            Agrega(status_pack_v, [k \in 1..Len(StatusCelulas) |-> StatusCelulas[p[k]]])
                = status_pack_geral_base

\* C24 witness: a run whose first cell is Bom and whose last cell is
\* Monitorar, pack voltage Bom, verdict Monitorar.
C24_Witness ==
    /\ pk_pc = "done"
    /\ Len(StatusCelulas) = Len(pack_cell_data)
    /\ StatusCelulas[1] = "Bom"
    /\ StatusCelulas[Len(StatusCelulas)] = "Monitorar"
    /\ status_pack_v = "Bom"
    /\ status_pack_geral_base = "Monitorar"

\* |measured total - sum of the cell OCVs| > 0.5 V, from the table
DifereDaSoma ==
    Abs(total_pack_voltage_input - SumSeq(Coluna(pack_cell_data, "ocv"))) > 500

\* The status of cell k of the table, evaluated against the means of the
\* table
StatusDaCelula(k) ==
    avaliar_celula_individual(pack_cell_data[k].ocv, pack_cell_data[k].ir,
                              current_cell_specs_pack,
                              np_mean(Coluna(pack_cell_data, "ocv")),
                              np_mean(Coluna(pack_cell_data, "ir")),
                              FALSE).status

\* C25: the discrepancy warning is raised exactly when |measured total -
\* sum of the cell OCVs| > 0.5 V, and it is advisory only: the pack-voltage
\* status, every cell status and the pack verdict are what the measured
\* total and the table alone determine, whether or not the warning is
\* raised.
C25_DiscrepancyAdvisory ==
    pk_pc = "done" =>
        /\ (discrepancy_warning_text # None) <=> DifereDaSoma
        /\ status_pack_v = Escada[PrimeiroDegrau][2]
        /\ \A k \in 1..Len(pack_cell_data) : StatusCelulas[k] = StatusDaCelula(k)
        /\ Rank(status_pack_geral_base) = SetMax({Rank(status_pack_v)} \cup CellRanks)

\* C25 witness: the warning is raised (total more than 0.5 V below the sum)
\* in a run whose pack voltage, cells and verdict are all Bom.
C25_Witness ==
    /\ pk_pc = "done"
    /\ discrepancy_warning_text # None
    /\ total_pack_voltage_input < SumSeq(Coluna(pack_cell_data, "ocv")) - 500
    /\ status_pack_v = "Bom"
    /\ \A k \in 1..Len(StatusCelulas) : StatusCelulas[k] = "Bom"
    /\ status_pack_geral_base = "Bom"

\* ------------------------------------------------------------------------
\* The number of reasons of a result (claim C27)
\* ------------------------------------------------------------------------
\* The call is inside one of the four rule blocks
EmRegra == cell_pc \in {"ocv", "desvio_ocv", "ir", "desvio_ir"}

\* C27: every result of avaliar_celula_individual carries at least one and
\* at most two reasons and never the placeholder 'N/A'; a rule block
\* appends a reason (one at most) only together with a strict increase of
\* the severity; and a Critico result carries exactly one reason, the
\* cutoff message.
C27_ReasonCount ==
    /\ [](Returned =>
            /\ Len(cell_ret.motivos) \in {1, 2}
            /\ M_NA \notin MotivosRetornados
            /\ cell_ret.status = "Critico" => cell_ret.motivos = <<M_OCV_MUITO_BAIXA>>)
    /\ [][(EmRegra /\ motivos' # motivos) =>
            /\ Len(motivos') = Len(motivos) + 1
            /\ SubSeq(motivos', 1, Len(motivos)) = motivos
            /\ Rank(status') > Rank(status)]_vars

\* C27 witness: a result with two reasons (Monitorar by voltage deviation,
\* then Ruim by the IR percentage deviation below 30 mOhm).
C27_Witness ==
    /\ Returned
    /\ cell_ret.status = "Ruim"
    /\ cell_ret.motivos = <<M_OCV_DESVIO_MODERADO, M_IR_ALTO_DESVIO_PCT>>

\* ------------------------------------------------------------------------
\* avaliar_pack_voltage on computed pack specs (claim C28)
\* ------------------------------------------------------------------------
\* avaliar_pack_voltage has returned for a pack_specs computed with N > 0
PackVoltageDone == ps_pc = "avaliado" /\ ps_n > 0

\* max(good_min, monitor_min) of the returned pack_specs, thirds of a mV
PisoBom ==
    IF ps_ret.PACK_TENSAO_LIMIAR_BOM_MIN >= ps_ret.PACK_TENSAO_LIMIAR_MONITOR_MIN
    THEN ps_ret.PACK_TENSAO_LIMIAR_BOM_MIN
    ELSE ps_ret.PACK_TENSAO_LIMIAR_MONITOR_MIN

\* A total of m mV is at most pack max + 0.1 V
AteMargem(m) == 3 * m <= ps_ret.PACK_TENSAO_MAX + 300

IdsDistintos(dados) ==
    \A j, k \in 1..Len(dados) : dados[j].id = dados[k].id => j = k

\* The step is a click on "Adicionar Celula"
CliqueAdicionar == av_pc = "idle" /\ av_evento' = "adicionar"

\* C29: a click on "Adicionar Celula" with an empty ID or with an ID that
\* is already in avulsa_cell_data leaves the list unchanged; any other click
\* appends exactly one record, which carries the new ID; so a list with
\* pairwise distinct IDs (the empty list the tab starts with is one) keeps
\* pairwise distinct IDs through every add.
C29_DistinctIds ==
    [][CliqueAdicionar =>
        /\ (new_cell_id' = "" \/ new_cell_id' \in IdsDe(avulsa_cell_data))
              => avulsa_cell_data' = avulsa_cell_data
        /\ (new_cell_id' # "" /\ new_cell_id' \notin IdsDe(avulsa_cell_data))
              => /\ Len(avulsa_cell_data') = Len(avulsa_cell_data) + 1
                 /\ SubSeq(avulsa_cell_data', 1, Len(avulsa_cell_data)) = avulsa_cell_data
                 /\ avulsa_cell_data'[Len(avulsa_cell_data')].id = new_cell_id'
        /\ IdsDistintos(avulsa_cell_data) => IdsDistintos(avulsa_cell_data')]_vars

\* C29 witness: with two cells in the list, a click whose ID is that of the
\* first cell has been refused.
C29_Witness ==
    /\ av_evento = "adicionar"
    /\ Len(avulsa_cell_data) = 2
    /\ avulsa_cell_data[1].Status = None
    /\ avulsa_cell_data[2].Status = None
    /\ new_cell_id = avulsa_cell_data[1].id
    /\ new_cell_id # avulsa_cell_data[2].id

\* ------------------------------------------------------------------------
\* Export and re-import of the loose-cell results (claim C26)
\* ------------------------------------------------------------------------
\* The results on the screen, saved with the JSON download button
ArquivoExportado ==
    json_dumps_avulsas(df_resultados_avulsas, selected_cell_type_avulsa)

\* The session state after the JSON block has processed that file
Reimportado ==
    processa_json(ArquivoExportado, avulsa_cell_data, run_avulsa_analysis,
                  selected_cell_type_avulsa)

\* The analysis of the k-th re-imported record
Reavaliado(k) == AnalisaLinha(Reimportado.dados[k], ALL_CELL_SPECS[Reimportado.tipo])

\* C26 (as claimed): the results of an analysis, exported with OCV and IR
\* written with two decimals, imported again and evaluated again as loose
\* cells, give every cell the severity and the reasons it had.
C26_AsClaimed ==
    (av_pc = "idle" /\ df_resultados_avulsas # <<>>) =>
        /\ Reimportado.msg = "sucesso"
        /\ Len(Reimportado.dados) = Len(df_resultados_avulsas)
        /\ \A k \in 1..Len(df_resultados_avulsas) :
              /\ Reavaliado(k).id = df_resultados_avulsas[k].id
              /\ Reavaliado(k).Status = df_resultados_avulsas[k].Status
              /\ Reavaliado(k).Observacoes = df_resultados_avulsas[k].Observacoes

\* ------------------------------------------------------------------------
\* Processing of an uploaded JSON file (claim C30)
\* ------------------------------------------------------------------------
\* The step is the JSON block of a script run
PassoJson == av_pc = "json"

\* The JSON block processes the stored string in this step
BlocoExecuta ==
    PassoJson /\ process_avulsa_json_flag /\ uploaded_avulsa_json_string # JsonNone

\* C30 (as claimed): an uploaded JSON is processed at most once. Only the
\* uploader callback sets process_avulsa_json_flag; the JSON block runs
\* only with the flag set and a stored string, and when it runs it clears
\* the flag and, on every path, leaves uploaded_avulsa_json_string None;
\* when it does not run it changes nothing of the session state; and
\* avulsa_cell_data is replaced only on the success path, which also sets
\* run_avulsa_analysis to False.
C30_AsClaimed ==
    [][/\ (process_avulsa_json_flag' /\ ~process_avulsa_json_flag)
              => av_evento' = "upload"
       /\ BlocoExecuta
              => /\ ~process_avulsa_json_flag'
                 /\ uploaded_avulsa_json_string' = JsonNone
       /\ (PassoJson /\ ~BlocoExecuta)
              => UNCHANGED av_session
       /\ (PassoJson /\ avulsa_cell_data' # avulsa_cell_data)
              => /\ av_msg' = "sucesso"
                 /\ ~run_avulsa_analysis']_vars

====
